---- MODULE Spec2Model ----
(***************************************************************************)
(* Incremental ETL jobs of etl-rds-glue-athena.                            *)
(*                                                                         *)
(* Spec      : the timestamp-window job (modules/glue/etl_job_template.py) *)
(*             run repeatedly, one run at a time per table, against a      *)
(*             source database that is written to concurrently.            *)
(* SpecGlue  : the jobs that rely on Glue job bookmarks                    *)
(*             (glue_scripts/etl_job_bookmark.py and the two Delta-upsert  *)
(*             scripts), run the same way.                                 *)
(* SpecRetry : the timestamp-window job run again after failed runs, from  *)
(*             a state in which a run of 30 days ago has stored a          *)
(*             watermark.                                                  *)
(* SpecTables: timestamp-window jobs of two tables, interleaved.           *)
(* SpecDelta : the Delta-upsert scripts alone, on a source table of        *)
(*             several rows.                                               *)
(* SpecPipeline : the command run-pipeline of run_glue_jobs.py, which      *)
(*             starts the jobs, monitors them and runs the crawler.        *)
(* SpecBookmark : etl_job_bookmark.py alone, on a source table of several  *)
(*             rows.                                                       *)
(* SpecAthena : the Athena count queries of test_pipeline.py and their     *)
(*             wait loop.                                                  *)
(* SpecOverlap : two runs of the timestamp-window job for the same table   *)
(*             at the same time.                                           *)
(*                                                                         *)
(* Time is counted in ticks.  A second has TicksPerSec ticks (the source   *)
(* columns are TIMESTAMPs with sub-second precision, the watermark string  *)
(* '%Y-%m-%d %H:%M:%S' has none), a day has SecsPerDay seconds.            *)
(***************************************************************************)
EXTENDS Integers, FiniteSets, Sequences, TLC

\* ---------------------------------------------------------------- bounds
TicksPerSec == 2
SecsPerDay == 2
MaxTick == 1
MaxRuns == 2
MaxWrites == 2
NumKeys == 1
MaxRetryWrites == 1
NumDeltaKeys == 2

\* ------------------------------------------------------ program constants
LookbackDays == 30

TicksPerDay == TicksPerSec * SecsPerDay
Lookback == LookbackDays * TicksPerDay
StartClock == Lookback
MaxClock == StartClock + Lookback + MaxTick

Tables == {"customers", "orders", "other"}
TimestampScript == "etl_job_template"
BookmarkScript == "etl_job_bookmark"
DeltaScripts == {"etl_job_delta_upsert", "etl_job_template_delta_upsert"}
Keys == 1..NumKeys
DeltaKeys == 1..NumDeltaKeys
\* the two runs that overlap
OverlapRuns == {1, 2}
NoWatermark == -1

\* mutant: the key does not contain the table name
MetadataKeyWithoutTable(t) == <<"etl-metadata", "last_processed_timestamp.txt">>

\* key = f"etl-metadata/{table_name}/last_processed_timestamp.txt"
MetadataKey(t) == <<"etl-metadata", t, "last_processed_timestamp.txt">>

MetadataKeys == {MetadataKey(t) : t \in Tables}
NoRow == [created_at |-> -1, updated_at |-> -1, order_date |-> -1]

VARIABLES
    script,         \* the job script that is deployed
    jobTables,      \* the tables for which a job is deployed (args['source_table'] of each job)
    clock,          \* wall clock (datetime.now() / CURRENT_TIMESTAMP), in ticks
    rows,           \* rows[t][k]: the row of source table t with primary key k, or NoRow
    store,          \* store[key]: content of the S3 object key of the metadata bucket, or NoWatermark
    bookmark,       \* bookmark[t]: row versions covered by the committed Glue job bookmark
    target,         \* target[t]: row versions in the S3 target (parquet files or Delta table) of t
    pc,             \* pc[t]: position of the current run of main() for table t
    wmBefore,       \* the stored watermark of t when the current run of t started
    bmBefore,       \* bookmark[t] when the current run of t started
    usedDefault,    \* the read of the current run fell back to the default timestamp
    last_timestamp, \* local last_timestamp of main()
    fullScan,       \* the extract of the current run used the unfiltered dbtable
    selected,       \* the rows returned by the extract of the current run
    saveFailed,     \* put_object raised inside save_last_processed_timestamp in the current run
    commits,        \* number of job.commit() calls in the current run
    failedAt,       \* the step that raised out of the try block in the current run, or "none"
    trace,          \* the steps the current run has called, in order
    nRuns,          \* runs started so far
    nWrites,        \* source writes so far
    writesAtExtract, \* nWrites when the extract of the current run returned
    saved,          \* saved[t]: the timestamp handed to the last save of t whose put_object returned
    cleanRuns,      \* cleanRuns[t]: every Delta-upsert run of t so far has ended without error
    failedRun,      \* failedRun[t]: the failed run of t that the current run retries
    warnings,       \* warnings[t]: the optional steps of the current run whose exception was caught
    \* run_glue_jobs.py, command run-pipeline
    jobRunState,    \* jobRunState[j]: JobRunState of the run of Glue job j, or "none"
    crawlerState,   \* State of the Glue crawler
    crawls,         \* crawls completed so far
    mainPc,         \* position of main()
    next_job,       \* index into jobs_to_run of the job to start next
    job_runs,       \* local job_runs of main(): the jobs whose start returned a run id
    monitored,      \* number of entries of job_runs already monitored
    all_succeeded,  \* local all_succeeded of main()
    job_state,      \* job_state[j]: local job_state of monitor_job(j), or "unbound"
    crawler_state,  \* local crawler_state of monitor_crawler, or "unbound"
    pollRaised,     \* pollRaised[n]: a status poll of the monitor of job or crawler n raised
    returned,       \* returned[j]: what monitor_job returned for j, "raised", or "none"
    crawlerStarted, \* start_crawler was called and did not raise
    crawlerReturned, \* what monitor_crawler returned, "raised", or "none"
    \* test_pipeline.py, section 4: the Athena count queries
    testPc,         \* position of test_pipeline() in the loop over tables[:2]
    table_index,    \* index into tables[:2] of the table that is queried
    queryState,     \* State of the query execution in Athena, or "none"
    wait_time,      \* local wait_time
    status,         \* local status, or "unbound"
    polls,          \* get_query_execution calls for the current query
    reports,        \* the result lines printed so far
    \* two runs of the timestamp-window job for one table at the same time
    overlap,        \* overlap[r]: position and locals of main() in run r
    written         \* the watermark these runs have put last, and the greatest they have put

histVars == <<writesAtExtract, saved, cleanRuns, failedRun, warnings>>

etlVars == <<script, jobTables, clock, rows, store, bookmark, target, pc, wmBefore, bmBefore,
             usedDefault, last_timestamp, fullScan, selected, saveFailed, commits,
             failedAt, trace, nRuns, nWrites, histVars>>

opsVars == <<jobRunState, crawlerState, crawls, mainPc, next_job, job_runs, monitored,
             all_succeeded, job_state, crawler_state, pollRaised, returned,
             crawlerStarted, crawlerReturned>>

athenaVars == <<testPc, table_index, queryState, wait_time, status, polls, reports>>

overlapVars == <<overlap, written>>

otherVars == <<athenaVars, overlapVars>>

vars == <<etlVars, opsVars, otherVars>>

runVars == <<pc, wmBefore, bmBefore, usedDefault, last_timestamp, fullScan, selected,
             saveFailed, commits, failedAt, trace>>

Range(f) == {f[i] : i \in DOMAIN f}

\* ------------------------------------------------------- time formatting
\* strftime('%Y-%m-%d %H:%M:%S'): the timestamp without its sub-second part
Strftime(t) == (t \div TicksPerSec) * TicksPerSec

\* strftime('%Y-%m-%d') and last_timestamp[:10]: the day of a timestamp
DateOf(t) == t \div TicksPerDay

\* datetime.now() - timedelta(days=30), formatted as a watermark
DefaultTimestamp(now) == Strftime(now - Lookback)

\* ------------------------------------------------------------ the source
Version(k, r) == [key |-> k, created_at |-> r.created_at,
                  updated_at |-> r.updated_at, order_date |-> r.order_date]

\* all row versions currently in source table t
TableRows(t) == {Version(k, rows[t][k]) : k \in {j \in DOMAIN rows[t] : rows[t][j] # NoRow}}

\* INSERT: created_at/updated_at default to CURRENT_TIMESTAMP; orders carry an
\* order_date of today or an earlier day and have no created_at column
InsertRow(t, k, daysAgo) ==
    /\ t \in jobTables
    /\ nWrites < MaxWrites
    /\ rows[t][k] = NoRow
    /\ rows' = [rows EXCEPT ![t][k] =
                  IF t = "orders"
                  THEN [created_at |-> 0, updated_at |-> clock,
                        order_date |-> DateOf(clock) - daysAgo]
                  ELSE [created_at |-> clock, updated_at |-> clock, order_date |-> 0]]
    /\ nWrites' = nWrites + 1
    /\ UNCHANGED <<opsVars, otherVars, histVars, script, jobTables, clock, store, bookmark, target, runVars, nRuns>>

\* UPDATE ... SET ..., updated_at = CURRENT_TIMESTAMP
UpdateRow(t, k) ==
    /\ t \in jobTables
    /\ nWrites < MaxWrites
    /\ rows[t][k] # NoRow
    /\ rows[t][k].updated_at < clock
    /\ rows' = [rows EXCEPT ![t][k].updated_at = clock]
    /\ nWrites' = nWrites + 1
    /\ UNCHANGED <<opsVars, otherVars, histVars, script, jobTables, clock, store, bookmark, target, runVars, nRuns>>

\* time passes: a tick, or a whole lookback period (the model follows the
\* first MaxTick ticks from the start and from one lookback period later)
Tick(d) ==
    /\ clock + d <= MaxClock
    /\ d = 1 => (clock - StartClock) % Lookback < MaxTick
    /\ clock' = clock + d
    /\ UNCHANGED <<opsVars, otherVars, histVars, script, jobTables, rows, store, bookmark, target, runVars, nRuns, nWrites>>

\* the current run is not compared with a failed run
NoFailedRun == [failedAt |-> "none", usedDefault |-> FALSE, last_timestamp |-> NoWatermark,
                selected |-> {}, writes |-> 0]

\* the run of t that has just failed after its extract had returned: the
\* watermark it had read and whether that was the default, the rows it had
\* selected and the number of source writes at that time
FailedRun(t) ==
    [failedAt |-> failedAt[t], usedDefault |-> usedDefault[t],
     last_timestamp |-> last_timestamp[t], selected |-> selected[t],
     writes |-> writesAtExtract[t]]

\* main() is entered: the locals of the new run of the job for table t
EnterMain(t) ==
    /\ t \in jobTables
    /\ pc[t] \in {"idle", "done", "noop", "failed"}
    /\ nRuns < MaxRuns
    /\ nRuns' = nRuns + 1
    /\ pc' = [pc EXCEPT ![t] = "start"]
    /\ wmBefore' = [wmBefore EXCEPT ![t] = store[MetadataKey(t)]]
    /\ bmBefore' = [bmBefore EXCEPT ![t] = bookmark[t]]
    /\ usedDefault' = [usedDefault EXCEPT ![t] = FALSE]
    /\ last_timestamp' = [last_timestamp EXCEPT ![t] = NoWatermark]
    /\ fullScan' = [fullScan EXCEPT ![t] = FALSE]
    /\ selected' = [selected EXCEPT ![t] = {}]
    /\ saveFailed' = [saveFailed EXCEPT ![t] = FALSE]
    /\ commits' = [commits EXCEPT ![t] = 0]
    /\ failedAt' = [failedAt EXCEPT ![t] = "none"]
    /\ trace' = [trace EXCEPT ![t] = <<>>]
    /\ writesAtExtract' = [writesAtExtract EXCEPT ![t] = 0]
    /\ warnings' = [warnings EXCEPT ![t] = {}]
    /\ UNCHANGED <<opsVars, otherVars, saved, cleanRuns, script, jobTables, clock, rows, store, bookmark, target, nWrites>>

\* a new run of the deployed job for table t
StartRun(t) ==
    /\ EnterMain(t)
    /\ failedRun' = [failedRun EXCEPT ![t] = NoFailedRun]

\* the job for table t is run again after a run that failed in transform or
\* load; the failed run is remembered
RetryRun(t) ==
    /\ failedAt[t] \in {"transform", "load"}
    /\ EnterMain(t)
    /\ failedRun' = [failedRun EXCEPT ![t] = FailedRun(t)]

\* the run calls a step
Called(t, step) == trace' = [trace EXCEPT ![t] = Append(@, step)]

\* a step raises inside the try block of main(): except prints and re-raises
Raise(t, step) ==
    /\ pc' = [pc EXCEPT ![t] = "failed"]
    /\ failedAt' = [failedAt EXCEPT ![t] = step]

\* ------------------------------------------------- timestamp-window job
\* the WHERE clause built by extract_from_rds_incremental
MatchesIncremental(t, v, ts) ==
    IF t = "customers" THEN v.created_at > ts \/ v.updated_at > ts
    ELSE IF t = "orders" THEN v.order_date >= DateOf(ts) \/ v.updated_at > ts
    ELSE v.updated_at > ts \/ v.created_at > ts

\* last_timestamp.startswith(default_date)
LooksLikeDefault(ts, now) == DateOf(ts) = DateOf(now - Lookback)

\* the rows returned for the dbtable that extract_from_rds_incremental builds
ExtractRows(t, ts, now) ==
    IF LooksLikeDefault(ts, now)
    THEN TableRows(t)
    ELSE {v \in TableRows(t) : MatchesIncremental(t, v, ts)}

\* mutant: the except clause of the read re-raises instead of returning the
\* default
GetLastProcessedTimestampRaises(t, s3ok) ==
    /\ pc[t] = "start"
    /\ Called(t, "read")
    /\ IF s3ok /\ store[MetadataKey(t)] # NoWatermark
       THEN /\ last_timestamp' = [last_timestamp EXCEPT ![t] = store[MetadataKey(t)]]
            /\ pc' = [pc EXCEPT ![t] = "read"]
            /\ UNCHANGED failedAt
       ELSE /\ Raise(t, "read")
            /\ UNCHANGED last_timestamp
    /\ UNCHANGED <<opsVars, otherVars, histVars, script, jobTables, clock, rows, store, bookmark, target, wmBefore, bmBefore,
                   usedDefault, fullScan, selected, saveFailed, commits, nRuns, nWrites>>

\* get_last_processed_timestamp: the stored value, or the default when the
\* object is missing or get_object raises
GetLastProcessedTimestamp(t, s3ok) ==
    /\ pc[t] = "start"
    /\ Called(t, "read")
    /\ IF s3ok /\ store[MetadataKey(t)] # NoWatermark
       THEN /\ last_timestamp' = [last_timestamp EXCEPT ![t] = store[MetadataKey(t)]]
            /\ UNCHANGED usedDefault
       ELSE /\ last_timestamp' = [last_timestamp EXCEPT ![t] = DefaultTimestamp(clock)]
            /\ usedDefault' = [usedDefault EXCEPT ![t] = TRUE]
    /\ pc' = [pc EXCEPT ![t] = "read"]
    /\ UNCHANGED <<opsVars, otherVars, histVars, script, jobTables, clock, rows, store, bookmark, target, wmBefore, bmBefore,
                   fullScan, selected, saveFailed, commits, failedAt, nRuns, nWrites>>

\* mutant: the branch tests record_count >= 0, so an empty extract is processed
ExtractProcessesEmpty(t, ok) ==
    /\ pc[t] = "read"
    /\ Called(t, "extract")
    /\ writesAtExtract' = [writesAtExtract EXCEPT ![t] = nWrites]
    /\ IF ok
       THEN /\ selected' = [selected EXCEPT ![t] = ExtractRows(t, last_timestamp[t], clock)]
            /\ fullScan' = [fullScan EXCEPT ![t] = LooksLikeDefault(last_timestamp[t], clock)]
            /\ pc' = [pc EXCEPT ![t] = "extracted"]
            /\ UNCHANGED failedAt
       ELSE /\ Raise(t, "extract")
            /\ UNCHANGED <<selected, fullScan>>
    /\ UNCHANGED <<opsVars, otherVars, warnings, saved, cleanRuns, failedRun, script, jobTables, clock, rows, store, bookmark, target, wmBefore, bmBefore,
                   usedDefault, last_timestamp, saveFailed, commits, nRuns, nWrites>>

\* extract_from_rds_incremental and incremental_data.count(), then the
\* branch on record_count > 0
ExtractFromRdsIncremental(t, ok) ==
    /\ pc[t] = "read"
    /\ Called(t, "extract")
    /\ writesAtExtract' = [writesAtExtract EXCEPT ![t] = nWrites]
    /\ IF ok
       THEN /\ selected' = [selected EXCEPT ![t] = ExtractRows(t, last_timestamp[t], clock)]
            /\ fullScan' = [fullScan EXCEPT ![t] = LooksLikeDefault(last_timestamp[t], clock)]
            /\ pc' = [pc EXCEPT ![t] =
                        IF Cardinality(ExtractRows(t, last_timestamp[t], clock)) > 0
                        THEN "extracted" ELSE "noop"]
            /\ UNCHANGED failedAt
       ELSE /\ Raise(t, "extract")
            /\ UNCHANGED <<selected, fullScan>>
    /\ UNCHANGED <<opsVars, otherVars, warnings, saved, cleanRuns, failedRun, script, jobTables, clock, rows, store, bookmark, target, wmBefore, bmBefore,
                   usedDefault, last_timestamp, saveFailed, commits, nRuns, nWrites>>

\* mutant: the watermark is advanced before the load instead of after it
TransformSavesWatermark(t, ok) ==
    /\ pc[t] = "extracted"
    /\ IF ok
       THEN /\ trace' = [trace EXCEPT ![t] = @ \o <<"transform", "save">>]
            /\ store' = [store EXCEPT ![MetadataKey(t)] = Strftime(clock)]
            /\ pc' = [pc EXCEPT ![t] = "transformed"]
            /\ UNCHANGED failedAt
       ELSE /\ Called(t, "transform")
            /\ Raise(t, "transform")
            /\ UNCHANGED store
    /\ UNCHANGED <<opsVars, otherVars, histVars, script, jobTables, clock, rows, bookmark, target, wmBefore, bmBefore,
                   usedDefault, last_timestamp, fullScan, selected, saveFailed, commits,
                   nRuns, nWrites>>

\* transform_data
TransformData(t, ok) ==
    /\ pc[t] = "extracted"
    /\ Called(t, "transform")
    /\ IF ok
       THEN pc' = [pc EXCEPT ![t] = "transformed"] /\ UNCHANGED failedAt
       ELSE Raise(t, "transform")
    /\ UNCHANGED <<opsVars, otherVars, histVars, script, jobTables, clock, rows, store, bookmark, target, wmBefore, bmBefore,
                   usedDefault, last_timestamp, fullScan, selected, saveFailed, commits,
                   nRuns, nWrites>>

\* mutant: an exception of the write is caught and printed inside the load
LoadToS3IncrementalSwallows(t, ok) ==
    /\ pc[t] = "transformed"
    /\ Called(t, "load")
    /\ pc' = [pc EXCEPT ![t] = "loaded"]
    /\ IF ok
       THEN /\ target' = [target EXCEPT ![t] = @ \cup selected[t]]
            /\ UNCHANGED failedAt
       ELSE /\ failedAt' = [failedAt EXCEPT ![t] = "load"]
            /\ UNCHANGED target
    /\ UNCHANGED <<opsVars, otherVars, histVars, script, jobTables, clock, rows, store, bookmark, wmBefore, bmBefore,
                   usedDefault, last_timestamp, fullScan, selected, saveFailed, commits,
                   nRuns, nWrites>>

\* load_to_s3_incremental: df.write.mode("append")
LoadToS3Incremental(t, ok) ==
    /\ pc[t] = "transformed"
    /\ Called(t, "load")
    /\ IF ok
       THEN /\ target' = [target EXCEPT ![t] = @ \cup selected[t]]
            /\ pc' = [pc EXCEPT ![t] = "loaded"]
            /\ UNCHANGED failedAt
       ELSE /\ Raise(t, "load")
            /\ UNCHANGED target
    /\ UNCHANGED <<opsVars, otherVars, histVars, script, jobTables, clock, rows, store, bookmark, wmBefore, bmBefore,
                   usedDefault, last_timestamp, fullScan, selected, saveFailed, commits,
                   nRuns, nWrites>>

\* mutant: the put does not replace an object that is already there
SaveKeepsExistingObject(t, s3ok) ==
    /\ pc[t] = "loaded"
    /\ Called(t, "save")
    /\ saved' = [saved EXCEPT ![t] = IF s3ok THEN Strftime(clock) ELSE @]
    /\ store' = [store EXCEPT ![MetadataKey(t)] =
                    IF s3ok /\ @ = NoWatermark THEN Strftime(clock) ELSE @]
    /\ saveFailed' = [saveFailed EXCEPT ![t] = ~s3ok]
    /\ pc' = [pc EXCEPT ![t] = "saved"]
    /\ UNCHANGED <<opsVars, otherVars, warnings, writesAtExtract, cleanRuns, failedRun, script, jobTables, clock, rows, bookmark, target, wmBefore, bmBefore,
                   usedDefault, last_timestamp, fullScan, selected, commits, failedAt,
                   nRuns, nWrites>>

\* mutant: the old object is deleted before the new one is put, so a failed
\* put leaves no watermark
SaveDeletesBeforePut(t, s3ok) ==
    /\ pc[t] = "loaded"
    /\ Called(t, "save")
    /\ saved' = [saved EXCEPT ![t] = IF s3ok THEN Strftime(clock) ELSE @]
    /\ store' = [store EXCEPT ![MetadataKey(t)] = IF s3ok THEN Strftime(clock) ELSE NoWatermark]
    /\ saveFailed' = [saveFailed EXCEPT ![t] = ~s3ok]
    /\ pc' = [pc EXCEPT ![t] = "saved"]
    /\ UNCHANGED <<opsVars, otherVars, warnings, writesAtExtract, cleanRuns, failedRun, script, jobTables, clock, rows, bookmark, target, wmBefore, bmBefore,
                   usedDefault, last_timestamp, fullScan, selected, commits, failedAt,
                   nRuns, nWrites>>

\* save_last_processed_timestamp(bucket, table, datetime.now().strftime(...)):
\* a put_object failure is caught and printed
SaveLastProcessedTimestamp(t, s3ok) ==
    /\ pc[t] = "loaded"
    /\ Called(t, "save")
    /\ saved' = [saved EXCEPT ![t] = IF s3ok THEN Strftime(clock) ELSE @]
    /\ store' = [store EXCEPT ![MetadataKey(t)] = IF s3ok THEN Strftime(clock) ELSE @]
    /\ saveFailed' = [saveFailed EXCEPT ![t] = ~s3ok]
    /\ pc' = [pc EXCEPT ![t] = "saved"]
    /\ UNCHANGED <<opsVars, otherVars, warnings, writesAtExtract, cleanRuns, failedRun, script, jobTables, clock, rows, bookmark, target, wmBefore, bmBefore,
                   usedDefault, last_timestamp, fullScan, selected, commits, failedAt,
                   nRuns, nWrites>>

\* job.commit() at the end of the records branch
JobCommit(t, ok) ==
    /\ pc[t] = "saved"
    /\ Called(t, "commit")
    /\ commits' = [commits EXCEPT ![t] = @ + 1]
    /\ IF ok
       THEN pc' = [pc EXCEPT ![t] = "done"] /\ UNCHANGED failedAt
       ELSE Raise(t, "commit")
    /\ UNCHANGED <<opsVars, otherVars, histVars, script, jobTables, clock, rows, store, bookmark, target, wmBefore, bmBefore,
                   usedDefault, last_timestamp, fullScan, selected, saveFailed,
                   nRuns, nWrites>>

\* ------------------------------------- two runs of the job for the same table
\* the table of the deployed job and the key of its watermark object
OverlapTable == CHOOSE t \in jobTables : TRUE
OverlapKey == MetadataKey(OverlapTable)

\* what a step of one of the two runs leaves alone besides store and target
OverlapFrame ==
    UNCHANGED <<opsVars, athenaVars, histVars, runVars, script, jobTables, clock, rows,
                bookmark, nRuns, nWrites>>

\* run r is at position p
At(r, p) == overlap[r].pc = p

\* the step of run r returns, or raises out of the try block of main()
Goto(r, p) == overlap' = [overlap EXCEPT ![r].pc = p]

\* main() is entered in run r
OverlapStart(r) ==
    /\ At(r, "idle")
    /\ overlap' = [overlap EXCEPT ![r].pc = "start", ![r].before = store[OverlapKey]]
    /\ UNCHANGED <<store, target, written>>
    /\ OverlapFrame

\* get_last_processed_timestamp in run r
OverlapGetLastProcessedTimestamp(r, s3ok) ==
    /\ At(r, "start")
    /\ overlap' = [overlap EXCEPT
          ![r].pc = "read",
          ![r].source = IF ~s3ok THEN "error"
                        ELSE IF store[OverlapKey] = NoWatermark THEN "missing" ELSE "stored",
          ![r].last_timestamp = IF s3ok /\ store[OverlapKey] # NoWatermark
                                THEN store[OverlapKey] ELSE DefaultTimestamp(clock)]
    /\ UNCHANGED <<store, target, written>>
    /\ OverlapFrame

\* extract_from_rds_incremental and the branch on record_count > 0 in run r
OverlapExtractFromRdsIncremental(r, ok) ==
    /\ At(r, "read")
    /\ LET found == ExtractRows(OverlapTable, overlap[r].last_timestamp, clock)
       IN  overlap' = [overlap EXCEPT
              ![r].pc = IF ~ok THEN "failed" ELSE IF Cardinality(found) > 0 THEN "extracted" ELSE "noop",
              ![r].selected = IF ok THEN found ELSE @]
    /\ UNCHANGED <<store, target, written>>
    /\ OverlapFrame

\* transform_data in run r
OverlapTransformData(r, ok) ==
    /\ At(r, "extracted")
    /\ Goto(r, IF ok THEN "transformed" ELSE "failed")
    /\ UNCHANGED <<store, target, written>>
    /\ OverlapFrame

\* load_to_s3_incremental in run r
OverlapLoadToS3Incremental(r, ok) ==
    /\ At(r, "transformed")
    /\ Goto(r, IF ok THEN "loaded" ELSE "failed")
    /\ target' = IF ok THEN [target EXCEPT ![OverlapTable] = @ \cup overlap[r].selected] ELSE target
    /\ UNCHANGED <<store, written>>
    /\ OverlapFrame

\* the greatest of two timestamps
Later(a, b) == IF a >= b THEN a ELSE b

\* the latest change timestamp of a batch
MaxUpdatedAt(S) == CHOOSE m \in {v.updated_at : v \in S} : \A v \in S : v.updated_at <= m

\* mutant: the run saves the latest change timestamp of its batch
OverlapSaveBatchTimestamp(r, s3ok) ==
    /\ At(r, "loaded")
    /\ overlap' = [overlap EXCEPT ![r].pc = "saved", ![r].wrote = s3ok]
    /\ LET ts == Strftime(MaxUpdatedAt(overlap[r].selected))
       IN  /\ store' = IF s3ok THEN [store EXCEPT ![OverlapKey] = ts] ELSE store
           /\ written' = IF s3ok THEN [last |-> ts, max |-> Later(written.max, ts)] ELSE written
    /\ UNCHANGED target
    /\ OverlapFrame

\* current_timestamp = datetime.now().strftime(...) and
\* save_last_processed_timestamp in run r
OverlapSaveLastProcessedTimestamp(r, s3ok) ==
    /\ At(r, "loaded")
    /\ overlap' = [overlap EXCEPT ![r].pc = "saved", ![r].wrote = s3ok]
    /\ LET ts == Strftime(clock)
       IN  /\ store' = IF s3ok THEN [store EXCEPT ![OverlapKey] = ts] ELSE store
           /\ written' = IF s3ok THEN [last |-> ts, max |-> Later(written.max, ts)] ELSE written
    /\ UNCHANGED target
    /\ OverlapFrame

\* job.commit() in run r
OverlapJobCommit(r, ok) ==
    /\ At(r, "saved")
    /\ Goto(r, IF ok THEN "done" ELSE "failed")
    /\ UNCHANGED <<store, target, written>>
    /\ OverlapFrame

\* ------------------------------------------------- jobs on Glue job bookmarks
\* create_dynamic_frame.from_options with a transformation_ctx: the rows that
\* the committed bookmark does not cover yet
BookmarkedRead(t) == TableRows(t) \ bookmark[t]

\* mutant: the commit records every row now in the source as processed
CommitCoversSource(t) == bookmark[t] \cup TableRows(t)

\* job.commit(): the bookmark now also covers what this run has read
CommittedBookmark(t) == bookmark[t] \cup selected[t]

\* etl_job_bookmark.py: extract_from_rds_with_bookmark and source_data.count(),
\* then the branch on record_count > 0
ExtractFromRdsWithBookmark(t, ok) ==
    /\ script = BookmarkScript
    /\ pc[t] = "start"
    /\ Called(t, "extract")
    /\ writesAtExtract' = [writesAtExtract EXCEPT ![t] = nWrites]
    /\ IF ok
       THEN /\ selected' = [selected EXCEPT ![t] = BookmarkedRead(t)]
            /\ pc' = [pc EXCEPT ![t] =
                        IF Cardinality(BookmarkedRead(t)) > 0 THEN "extracted" ELSE "empty"]
            /\ UNCHANGED failedAt
       ELSE /\ Raise(t, "extract")
            /\ UNCHANGED selected
    /\ UNCHANGED <<opsVars, otherVars, warnings, saved, cleanRuns, failedRun, script, jobTables, clock, rows, store, bookmark, target, wmBefore, bmBefore,
                   usedDefault, last_timestamp, fullScan, saveFailed, commits, nRuns, nWrites>>

\* etl_job_bookmark.py: transform_data
BookmarkTransformData(t, ok) ==
    /\ script = BookmarkScript
    /\ pc[t] = "extracted"
    /\ Called(t, "transform")
    /\ IF ok
       THEN pc' = [pc EXCEPT ![t] = "transformed"] /\ UNCHANGED failedAt
       ELSE Raise(t, "transform")
    /\ UNCHANGED <<opsVars, otherVars, histVars, script, jobTables, clock, rows, store, bookmark, target, wmBefore, bmBefore,
                   usedDefault, last_timestamp, fullScan, selected, saveFailed, commits,
                   nRuns, nWrites>>

\* mutant: an exception of the load is caught and printed instead of re-raised
LoadSwallowsException(t, ok) ==
    /\ script = BookmarkScript
    /\ pc[t] = "transformed"
    /\ Called(t, "load")
    /\ pc' = [pc EXCEPT ![t] = "loaded"]
    /\ IF ok
       THEN /\ target' = [target EXCEPT ![t] =
                            IF t = "orders" THEN @ \cup selected[t] ELSE selected[t]]
            /\ UNCHANGED failedAt
       ELSE /\ failedAt' = [failedAt EXCEPT ![t] = "load"]
            /\ UNCHANGED target
    /\ UNCHANGED <<opsVars, otherVars, histVars, script, jobTables, clock, rows, store, bookmark, wmBefore, bmBefore,
                   usedDefault, last_timestamp, fullScan, selected, saveFailed, commits,
                   nRuns, nWrites>>

\* etl_job_bookmark.py: load_to_s3_with_partitioning: orders are appended,
\* the other tables are written with mode("overwrite")
LoadToS3WithPartitioning(t, ok) ==
    /\ script = BookmarkScript
    /\ pc[t] = "transformed"
    /\ Called(t, "load")
    /\ IF ok
       THEN /\ target' = [target EXCEPT ![t] =
                            IF t = "orders" THEN @ \cup selected[t] ELSE selected[t]]
            /\ pc' = [pc EXCEPT ![t] = "loaded"]
            /\ UNCHANGED failedAt
       ELSE /\ Raise(t, "load")
            /\ UNCHANGED target
    /\ UNCHANGED <<opsVars, otherVars, histVars, script, jobTables, clock, rows, store, bookmark, wmBefore, bmBefore,
                   usedDefault, last_timestamp, fullScan, selected, saveFailed, commits,
                   nRuns, nWrites>>

\* etl_job_bookmark.py: job.commit() after the if/else, inside the try block
BookmarkJobCommit(t, ok) ==
    /\ script = BookmarkScript
    /\ pc[t] \in {"loaded", "empty"}
    /\ Called(t, "commit")
    /\ commits' = [commits EXCEPT ![t] = @ + 1]
    /\ IF ok
       THEN /\ bookmark' = [bookmark EXCEPT ![t] = CommittedBookmark(t)]
            /\ pc' = [pc EXCEPT ![t] = "done"]
            /\ UNCHANGED failedAt
       ELSE /\ Raise(t, "commit")
            /\ UNCHANGED bookmark
    /\ UNCHANGED <<opsVars, otherVars, histVars, script, jobTables, clock, rows, store, target, wmBefore, bmBefore,
                   usedDefault, last_timestamp, fullScan, selected, saveFailed,
                   nRuns, nWrites>>

\* Delta-upsert scripts: a step raises inside the try block of main(); except
\* prints and re-raises, and the finally block runs before the error leaves
DeltaRaise(t, step) ==
    /\ pc' = [pc EXCEPT ![t] = "finally"]
    /\ failedAt' = [failedAt EXCEPT ![t] = step]

\* Delta-upsert scripts: extract_with_native_bookmarks and the test
\* source_data.count() == 0
ExtractWithNativeBookmarks(t, ok) ==
    /\ script \in DeltaScripts
    /\ pc[t] = "start"
    /\ Called(t, "extract")
    /\ writesAtExtract' = [writesAtExtract EXCEPT ![t] = nWrites]
    /\ IF ok
       THEN /\ selected' = [selected EXCEPT ![t] = BookmarkedRead(t)]
            /\ pc' = [pc EXCEPT ![t] =
                        IF Cardinality(BookmarkedRead(t)) = 0 THEN "empty" ELSE "extracted"]
            /\ UNCHANGED failedAt
       ELSE /\ DeltaRaise(t, "extract")
            /\ UNCHANGED selected
    /\ UNCHANGED <<opsVars, otherVars, warnings, saved, cleanRuns, failedRun, script, jobTables, clock, rows, store, bookmark, target, wmBefore, bmBefore,
                   usedDefault, last_timestamp, fullScan, saveFailed, commits, nRuns, nWrites>>

\* Delta-upsert scripts: job.commit() and return in the zero-records branch
DeltaCommitEmpty(t, ok) ==
    /\ script \in DeltaScripts
    /\ pc[t] = "empty"
    /\ Called(t, "commit")
    /\ commits' = [commits EXCEPT ![t] = @ + 1]
    /\ pc' = [pc EXCEPT ![t] = "finally"]
    /\ IF ok
       THEN /\ bookmark' = [bookmark EXCEPT ![t] = CommittedBookmark(t)]
            /\ UNCHANGED failedAt
       ELSE /\ failedAt' = [failedAt EXCEPT ![t] = "commit"]
            /\ UNCHANGED bookmark
    /\ UNCHANGED <<opsVars, otherVars, histVars, script, jobTables, clock, rows, store, target, wmBefore, bmBefore,
                   usedDefault, last_timestamp, fullScan, selected, saveFailed,
                   nRuns, nWrites>>

\* Delta-upsert scripts: transform_data
DeltaTransformData(t, ok) ==
    /\ script \in DeltaScripts
    /\ pc[t] = "extracted"
    /\ Called(t, "transform")
    /\ IF ok
       THEN pc' = [pc EXCEPT ![t] = "transformed"] /\ UNCHANGED failedAt
       ELSE DeltaRaise(t, "transform")
    /\ UNCHANGED <<opsVars, otherVars, histVars, script, jobTables, clock, rows, store, bookmark, target, wmBefore, bmBefore,
                   usedDefault, last_timestamp, fullScan, selected, saveFailed, commits,
                   nRuns, nWrites>>

\* MERGE ... ON target.pk = source.pk WHEN MATCHED THEN UPDATE SET *
\* WHEN NOT MATCHED THEN INSERT *
Merge(tab, src) == {v \in tab : \A w \in src : w.key # v.key} \cup src

\* Delta-upsert scripts: upsert_to_delta_lake.  The table is merged into when
\* it is found; it is written with mode("overwrite") when the probe for it
\* (in the template script: the probe or the merge) raised
UpsertToDeltaLake(t, outcome) ==
    /\ script \in DeltaScripts
    /\ pc[t] = "transformed"
    /\ Called(t, "upsert")
    /\ outcome = "merge" => target[t] # {}
    /\ IF outcome = "raise"
       THEN /\ DeltaRaise(t, "upsert")
            /\ UNCHANGED target
       ELSE /\ target' = [target EXCEPT ![t] =
                            IF outcome = "merge" THEN Merge(@, selected[t]) ELSE selected[t]]
            /\ pc' = [pc EXCEPT ![t] = "upserted"]
            /\ UNCHANGED failedAt
    /\ UNCHANGED <<opsVars, otherVars, histVars, script, jobTables, clock, rows, store, bookmark, wmBefore, bmBefore,
                   usedDefault, last_timestamp, fullScan, selected, saveFailed, commits,
                   nRuns, nWrites>>

\* Delta-upsert scripts: the except block of an optional step prints a warning
\* and the step returns
Warn(t, step) == warnings' = [warnings EXCEPT ![t] = @ \cup {step}]

\* Delta-upsert scripts: create_symlink_manifest; its exceptions are caught
CreateSymlinkManifest(t, ok) ==
    /\ script \in DeltaScripts
    /\ pc[t] = "upserted"
    /\ Called(t, "manifest")
    /\ pc' = [pc EXCEPT ![t] = "manifested"]
    /\ IF ok THEN UNCHANGED warnings ELSE Warn(t, "manifest")
    /\ UNCHANGED <<opsVars, otherVars, writesAtExtract, saved, cleanRuns, failedRun, script, jobTables, clock, rows, store, bookmark, target, wmBefore, bmBefore,
                   usedDefault, last_timestamp, fullScan, selected, saveFailed, commits,
                   failedAt, nRuns, nWrites>>

\* mutant: an exception of the optimisation leaves optimize_delta_table
OptimizeDeltaTableRaises(t, ok) ==
    /\ script \in DeltaScripts
    /\ pc[t] = "manifested"
    /\ Called(t, "optimize")
    /\ IF ok
       THEN pc' = [pc EXCEPT ![t] = "finally"] /\ UNCHANGED failedAt
       ELSE DeltaRaise(t, "optimize")
    /\ IF ok THEN UNCHANGED warnings ELSE Warn(t, "optimize")
    /\ UNCHANGED <<opsVars, otherVars, writesAtExtract, saved, cleanRuns, failedRun, script, jobTables, clock, rows, store, bookmark, target, wmBefore, bmBefore,
                   usedDefault, last_timestamp, fullScan, selected, saveFailed, commits,
                   nRuns, nWrites>>

\* Delta-upsert scripts: optimize_delta_table; its exceptions are caught.  The
\* compaction rewrites the rows it has read from the table in one Delta
\* transaction, so the table holds the same rows whether it commits or fails
OptimizeDeltaTable(t, ok) ==
    /\ script \in DeltaScripts
    /\ pc[t] = "manifested"
    /\ Called(t, "optimize")
    /\ pc' = [pc EXCEPT ![t] = "finally"]
    /\ IF ok THEN UNCHANGED warnings ELSE Warn(t, "optimize")
    /\ UNCHANGED <<opsVars, otherVars, writesAtExtract, saved, cleanRuns, failedRun, script, jobTables, clock, rows, store, bookmark, target, wmBefore, bmBefore,
                   usedDefault, last_timestamp, fullScan, selected, saveFailed, commits,
                   failedAt, nRuns, nWrites>>

\* Delta-upsert scripts: job.commit() in the finally block of main(), run on
\* every path; afterwards a pending exception leaves main()
DeltaFinallyCommit(t, ok) ==
    /\ script \in DeltaScripts
    /\ pc[t] = "finally"
    /\ Called(t, "commit")
    /\ commits' = [commits EXCEPT ![t] = @ + 1]
    /\ bookmark' = [bookmark EXCEPT ![t] = IF ok THEN CommittedBookmark(t) ELSE @]
    /\ failedAt' = [failedAt EXCEPT ![t] = IF ~ok /\ @ = "none" THEN "commit" ELSE @]
    /\ pc' = [pc EXCEPT ![t] = IF ok /\ failedAt[t] = "none" THEN "done" ELSE "failed"]
    /\ cleanRuns' = [cleanRuns EXCEPT ![t] = @ /\ ok /\ failedAt[t] = "none"]
    /\ UNCHANGED <<opsVars, otherVars, warnings, writesAtExtract, saved, failedRun, script, jobTables, clock, rows, store, target, wmBefore, bmBefore,
                   usedDefault, last_timestamp, fullScan, selected, saveFailed,
                   nRuns, nWrites>>

\* ------------------------------------------- run_glue_jobs.py: run-pipeline
jobs_to_run == <<"data-analytics-customers-etl", "data-analytics-orders-etl">>
crawler_name == "data-analytics-crawler"
Jobs == Range(jobs_to_run)

\* mutant: TIMEOUT is missing from the list of final states
JobFinalStatesWithoutTimeout == {"SUCCEEDED", "FAILED", "STOPPED"}

\* the job run states at which monitor_job leaves its loop
JobFinalStates == {"SUCCEEDED", "FAILED", "STOPPED", "TIMEOUT"}

\* the crawler states at which monitor_crawler leaves its loop
CrawlerBreakStates == {"READY", "STOPPING"}

\* the Glue service moves a job run on: STARTING, RUNNING, then SUCCEEDED,
\* FAILED, TIMEOUT, ERROR, or STOPPING and STOPPED
JobRunSuccessors(state) ==
    IF state = "STARTING" THEN {"RUNNING"}
    ELSE IF state = "RUNNING" THEN {"SUCCEEDED", "FAILED", "TIMEOUT", "ERROR", "STOPPING"}
    ELSE IF state = "STOPPING" THEN {"STOPPED"}
    ELSE {}

JobRunProgress(j, state) ==
    /\ jobRunState[j] # "none"
    /\ state \in JobRunSuccessors(jobRunState[j])
    /\ jobRunState' = [jobRunState EXCEPT ![j] = state]
    /\ UNCHANGED <<etlVars, otherVars, crawlerState, crawls, mainPc, next_job, job_runs, monitored,
                   all_succeeded, job_state, crawler_state, pollRaised, returned,
                   crawlerStarted, crawlerReturned>>

\* the Glue service moves the crawler on: RUNNING, STOPPING, then READY again
\* with the crawl completed
CrawlerProgress ==
    /\ crawlerState \in {"RUNNING", "STOPPING"}
    /\ crawlerState' = IF crawlerState = "RUNNING" THEN "STOPPING" ELSE "READY"
    /\ crawls' = IF crawlerState = "STOPPING" THEN crawls + 1 ELSE crawls
    /\ UNCHANGED <<etlVars, otherVars, jobRunState, mainPc, next_job, job_runs, monitored,
                   all_succeeded, job_state, crawler_state, pollRaised, returned,
                   crawlerStarted, crawlerReturned>>

\* the value a monitor returns, as recorded in returned and crawlerReturned
Returns(b) == IF b THEN "True" ELSE "False"

\* main() after the monitoring loop: the branch on all_succeeded
AfterMonitoring(succeeded) == IF succeeded THEN "start_crawler" ELSE "skipped"

\* main(): job_run_id = run_glue_job(job_name) for the next job of jobs_to_run,
\* appended to job_runs when it is not None; after the last job all_succeeded
\* is set and the monitoring loop is entered
RunGlueJob(ok) ==
    /\ mainPc = "start_jobs"
    /\ LET j == jobs_to_run[next_job]
           runs == IF ok THEN Append(job_runs, j) ELSE job_runs
       IN  /\ jobRunState' = [jobRunState EXCEPT ![j] = IF ok THEN "STARTING" ELSE @]
           /\ job_runs' = runs
           /\ next_job' = next_job + 1
           /\ mainPc' = IF next_job < Len(jobs_to_run) THEN "start_jobs"
                        ELSE IF Len(runs) > 0 THEN "polling_job"
                        ELSE AfterMonitoring(TRUE)
    /\ UNCHANGED <<etlVars, otherVars, crawlerState, crawls, monitored, all_succeeded, job_state,
                   crawler_state, pollRaised, returned, crawlerStarted, crawlerReturned>>

\* one iteration of the loop of monitor_job for the next entry of job_runs.
\* When the loop is left, the lines after it run (they read job_state, which
\* is unbound when the first poll raised) and main() goes on to the next entry
\* or to the branch on all_succeeded
MonitorJob(raises) ==
    /\ mainPc = "polling_job"
    /\ LET j == job_runs[monitored + 1]
           observed == IF raises THEN job_state[j] ELSE jobRunState[j]
           success == observed = "SUCCEEDED"
       IN  /\ job_state' = [job_state EXCEPT ![j] = observed]
           /\ pollRaised' = [pollRaised EXCEPT ![j] = raises]
           /\ IF ~raises /\ observed \notin JobFinalStates
              THEN UNCHANGED <<mainPc, returned, all_succeeded, monitored>>
              ELSE IF observed = "unbound"
              THEN /\ returned' = [returned EXCEPT ![j] = "raised"]
                   /\ mainPc' = "crashed"
                   /\ UNCHANGED <<all_succeeded, monitored>>
              ELSE /\ returned' = [returned EXCEPT ![j] = Returns(success)]
                   /\ all_succeeded' = (all_succeeded /\ success)
                   /\ monitored' = monitored + 1
                   /\ mainPc' = IF monitored + 1 < Len(job_runs) THEN "polling_job"
                                ELSE AfterMonitoring(all_succeeded /\ success)
    /\ UNCHANGED <<etlVars, otherVars, jobRunState, crawlerState, crawls, next_job, job_runs,
                   crawler_state, crawlerStarted, crawlerReturned>>

\* main(): run_crawler(crawler_name); monitor_crawler follows when it returned True
RunCrawler(ok) ==
    /\ mainPc = "start_crawler"
    /\ crawlerState' = IF ok THEN "RUNNING" ELSE crawlerState
    /\ crawlerStarted' = ok
    /\ mainPc' = IF ok THEN "polling_crawler" ELSE "finished"
    /\ UNCHANGED <<etlVars, otherVars, jobRunState, crawls, next_job, job_runs, monitored,
                   all_succeeded, job_state, crawler_state, pollRaised, returned,
                   crawlerReturned>>

\* one iteration of the loop of monitor_crawler; when the loop is left, the
\* lines after it run (they read crawler_state, which is unbound when the
\* first poll raised)
MonitorCrawler(raises) ==
    /\ mainPc = "polling_crawler"
    /\ LET observed == IF raises THEN crawler_state ELSE crawlerState
       IN  /\ crawler_state' = observed
           /\ pollRaised' = [pollRaised EXCEPT ![crawler_name] = raises]
           /\ IF ~raises /\ observed \notin CrawlerBreakStates
              THEN UNCHANGED <<mainPc, crawlerReturned>>
              ELSE IF observed = "unbound"
              THEN crawlerReturned' = "raised" /\ mainPc' = "crashed"
              ELSE crawlerReturned' = Returns(observed = "READY") /\ mainPc' = "finished"
    /\ UNCHANGED <<etlVars, otherVars, jobRunState, crawlerState, crawls, next_job, job_runs,
                   monitored, all_succeeded, job_state, returned, crawlerStarted>>

\* main() has just been entered with the command run-pipeline; no job runs,
\* the crawler is idle
\* test_pipeline.py: the wait loop for an Athena query
max_wait == 30
sleep_seconds == 2
tested_tables == 1..2
AthenaFinalStates == {"SUCCEEDED", "FAILED", "CANCELLED"}

\* Athena works on the query
AthenaProgress ==
    /\ \/ queryState = "QUEUED" /\ queryState' \in {"RUNNING", "FAILED", "CANCELLED"}
       \/ queryState = "RUNNING" /\ queryState' \in AthenaFinalStates
    /\ UNCHANGED <<etlVars, opsVars, overlapVars, testPc, table_index, wait_time, status, polls, reports>>

\* the except block around the loop over tables[:2] prints the error
AthenaError == testPc' = "error"

\* start_query_execution for the next table, then max_wait and wait_time
StartQueryExecution(ok) ==
    /\ testPc = "query"
    /\ IF ok
       THEN /\ queryState' = "QUEUED"
            /\ wait_time' = 0
            /\ polls' = 0
            /\ testPc' = "poll"
       ELSE /\ AthenaError
            /\ UNCHANGED <<queryState, wait_time, polls>>
    /\ UNCHANGED <<etlVars, opsVars, overlapVars, table_index, status, reports>>

\* mutant: the loop runs while wait_time <= max_wait
AthenaPollOnceMore(raises) ==
    /\ testPc = "poll"
    /\ wait_time <= max_wait
    /\ polls' = polls + 1
    /\ IF raises
       THEN /\ AthenaError
            /\ UNCHANGED <<status, wait_time>>
       ELSE /\ status' = queryState
            /\ IF queryState \in AthenaFinalStates
               THEN /\ testPc' = "report"
                    /\ UNCHANGED wait_time
               ELSE /\ wait_time' = wait_time + sleep_seconds
                    /\ testPc' = IF wait_time + sleep_seconds <= max_wait THEN "poll" ELSE "report"
    /\ UNCHANGED <<etlVars, opsVars, overlapVars, table_index, queryState, reports>>

\* one pass of the loop while wait_time < max_wait: get_query_execution, break
\* on a final state, else sleep and add to wait_time; the loop is left when
\* its condition no longer holds
AthenaPoll(raises) ==
    /\ testPc = "poll"
    /\ wait_time < max_wait
    /\ polls' = polls + 1
    /\ IF raises
       THEN /\ AthenaError
            /\ UNCHANGED <<status, wait_time>>
       ELSE /\ status' = queryState
            /\ IF queryState \in AthenaFinalStates
               THEN /\ testPc' = "report"
                    /\ UNCHANGED wait_time
               ELSE /\ wait_time' = wait_time + sleep_seconds
                    /\ testPc' = IF wait_time + sleep_seconds < max_wait THEN "poll" ELSE "report"
    /\ UNCHANGED <<etlVars, opsVars, overlapVars, table_index, queryState, reports>>

\* the line printed for the current table
Printed(line) == Append(reports, [table |-> table_index, status |-> status, line |-> line])

\* after the loop: when status is SUCCEEDED, get_query_results and the count
\* of its second row, else the line with the status; then the next table
AthenaReport(results) ==
    /\ testPc = "report"
    /\ IF status = "SUCCEEDED"
       THEN IF results = "raise"
            THEN AthenaError /\ UNCHANGED <<reports, table_index>>
            ELSE /\ reports' = IF results = "rows" THEN Printed("count") ELSE reports
                 /\ IF table_index + 1 \in tested_tables
                    THEN table_index' = table_index + 1 /\ testPc' = "query"
                    ELSE UNCHANGED table_index /\ testPc' = "ended"
       ELSE /\ results = "rows"
            /\ reports' = Printed("query status")
            /\ IF table_index + 1 \in tested_tables
               THEN table_index' = table_index + 1 /\ testPc' = "query"
               ELSE UNCHANGED table_index /\ testPc' = "ended"
    /\ UNCHANGED <<etlVars, opsVars, overlapVars, queryState, wait_time, status, polls>>

\* the catalog lists tables and the first query is about to be started
InitAthena ==
    /\ testPc = "query"
    /\ table_index = 1
    /\ queryState = "none"
    /\ wait_time = 0
    /\ status = "unbound"
    /\ polls = 0
    /\ reports = <<>>

InitOps ==
    /\ InitAthena
    /\ jobRunState = [j \in Jobs |-> "none"]
    /\ crawlerState = "READY"
    /\ crawls = 0
    /\ mainPc = "start_jobs"
    /\ next_job = 1
    /\ job_runs = <<>>
    /\ monitored = 0
    /\ all_succeeded = TRUE
    /\ job_state = [j \in Jobs |-> "unbound"]
    /\ crawler_state = "unbound"
    /\ pollRaised = [n \in Jobs \cup {crawler_name} |-> FALSE]
    /\ returned = [j \in Jobs |-> "none"]
    /\ crawlerStarted = FALSE
    /\ crawlerReturned = "none"

\* main() has not been entered in run r
IdleRun == [pc |-> "idle", before |-> NoWatermark, source |-> "none",
            last_timestamp |-> NoWatermark, selected |-> {}, wrote |-> FALSE]

\* no run has started: the locals of main() and the counters
InitLocals ==
    /\ overlap = [r \in OverlapRuns |-> IdleRun]
    /\ written = [last |-> NoWatermark, max |-> NoWatermark]
    /\ pc = [t \in Tables |-> "idle"]
    /\ wmBefore = [t \in Tables |-> NoWatermark]
    /\ bmBefore = [t \in Tables |-> {}]
    /\ usedDefault = [t \in Tables |-> FALSE]
    /\ last_timestamp = [t \in Tables |-> NoWatermark]
    /\ fullScan = [t \in Tables |-> FALSE]
    /\ selected = [t \in Tables |-> {}]
    /\ saveFailed = [t \in Tables |-> FALSE]
    /\ commits = [t \in Tables |-> 0]
    /\ failedAt = [t \in Tables |-> "none"]
    /\ trace = [t \in Tables |-> <<>>]
    /\ nRuns = 0
    /\ nWrites = 0
    /\ writesAtExtract = [t \in Tables |-> 0]
    /\ cleanRuns = [t \in Tables |-> TRUE]
    /\ failedRun = [t \in Tables |-> NoFailedRun]
    /\ warnings = [t \in Tables |-> {}]

\* jobs of one of the scripts are deployed for one of the sets of tables;
\* nothing has run and the source tables are empty
InitJobs(scripts, tableSets) ==
    /\ script \in scripts
    /\ jobTables \in tableSets
    /\ clock = StartClock
    /\ rows = [t \in Tables |-> [k \in Keys \cup DeltaKeys |-> NoRow]]
    /\ store = [key \in MetadataKeys |-> NoWatermark]
    /\ bookmark = [t \in Tables |-> {}]
    /\ target = [t \in Tables |-> {}]
    /\ saved = [t \in Tables |-> NoWatermark]
    /\ InitLocals

InitState(scripts) == InitJobs(scripts, {{t} : t \in Tables})

Init == InitState({TimestampScript}) /\ InitOps

Next ==
    \/ \E d \in {1, Lookback} : Tick(d)
    \/ \E t \in Tables, k \in Keys, daysAgo \in {0, 1} : InsertRow(t, k, daysAgo)
    \/ \E t \in Tables, k \in Keys : UpdateRow(t, k)
    \/ \E t \in Tables : StartRun(t)
    \/ \E t \in Tables, s3ok \in BOOLEAN : GetLastProcessedTimestamp(t, s3ok)
    \/ \E t \in Tables, ok \in BOOLEAN : ExtractFromRdsIncremental(t, ok)
    \/ \E t \in Tables, ok \in BOOLEAN : TransformData(t, ok)
    \/ \E t \in Tables, ok \in BOOLEAN : LoadToS3Incremental(t, ok)
    \/ \E t \in Tables, s3ok \in BOOLEAN : SaveLastProcessedTimestamp(t, s3ok)
    \/ \E t \in Tables, ok \in BOOLEAN : JobCommit(t, ok)

Spec == Init /\ [][Next]_vars

InitGlue == InitState({BookmarkScript} \cup DeltaScripts) /\ InitOps

NextGlue ==
    \/ Tick(1)
    \/ \E t \in Tables, k \in Keys : InsertRow(t, k, 0)
    \/ \E t \in Tables, k \in Keys : UpdateRow(t, k)
    \/ \E t \in Tables : StartRun(t)
    \/ \E t \in Tables, ok \in BOOLEAN : ExtractFromRdsWithBookmark(t, ok)
    \/ \E t \in Tables, ok \in BOOLEAN : BookmarkTransformData(t, ok)
    \/ \E t \in Tables, ok \in BOOLEAN : LoadToS3WithPartitioning(t, ok)
    \/ \E t \in Tables, ok \in BOOLEAN : BookmarkJobCommit(t, ok)
    \/ \E t \in Tables, ok \in BOOLEAN : ExtractWithNativeBookmarks(t, ok)
    \/ \E t \in Tables, ok \in BOOLEAN : DeltaCommitEmpty(t, ok)
    \/ \E t \in Tables, ok \in BOOLEAN : DeltaTransformData(t, ok)
    \/ \E t \in Tables, outcome \in {"merge", "overwrite", "raise"} : UpsertToDeltaLake(t, outcome)
    \/ \E t \in Tables, ok \in BOOLEAN : CreateSymlinkManifest(t, ok)
    \/ \E t \in Tables, ok \in BOOLEAN : OptimizeDeltaTable(t, ok)
    \/ \E t \in Tables, ok \in BOOLEAN : DeltaFinallyCommit(t, ok)

SpecGlue == InitGlue /\ [][NextGlue]_vars

\* the job has run once, one lookback period before the start: the row that
\* the source held then is in the target and the watermark of that time is
\* stored
FirstRunAt == StartClock - Lookback

InitRetry ==
    /\ script = TimestampScript
    /\ jobTables \in {{t} : t \in Tables}
    /\ clock = StartClock
    /\ rows = [t \in Tables |-> [k \in Keys \cup DeltaKeys |->
                  IF t \in jobTables /\ k = 1
                  THEN IF t = "orders"
                       THEN [created_at |-> 0, updated_at |-> FirstRunAt,
                             order_date |-> DateOf(FirstRunAt)]
                       ELSE [created_at |-> FirstRunAt, updated_at |-> FirstRunAt,
                             order_date |-> 0]
                  ELSE NoRow]]
    /\ store = [key \in MetadataKeys |->
                  IF \E t \in jobTables : key = MetadataKey(t)
                  THEN Strftime(FirstRunAt) ELSE NoWatermark]
    /\ bookmark = [t \in Tables |-> {}]
    /\ target = [t \in Tables |-> TableRows(t)]
    /\ saved = [t \in Tables |-> IF t \in jobTables THEN Strftime(FirstRunAt) ELSE NoWatermark]
    /\ InitLocals
    /\ InitOps

NextRetry ==
    \/ \E d \in {1, Lookback} : Tick(d)
    \/ \E t \in Tables, k \in Keys : nWrites < MaxRetryWrites /\ UpdateRow(t, k)
    \/ \E t \in Tables : StartRun(t)
    \/ \E t \in Tables : RetryRun(t)
    \/ \E t \in Tables, s3ok \in BOOLEAN : GetLastProcessedTimestamp(t, s3ok)
    \/ \E t \in Tables, ok \in BOOLEAN : ExtractFromRdsIncremental(t, ok)
    \/ \E t \in Tables, ok \in BOOLEAN : TransformData(t, ok)
    \/ \E t \in Tables, ok \in BOOLEAN : LoadToS3Incremental(t, ok)
    \/ \E t \in Tables, s3ok \in BOOLEAN : SaveLastProcessedTimestamp(t, s3ok)
    \/ \E t \in Tables, ok \in BOOLEAN : JobCommit(t, ok)

SpecRetry == InitRetry /\ [][NextRetry]_vars

\* a Delta-upsert job is deployed; its source table has up to NumDeltaKeys rows
InitDelta == InitState(DeltaScripts) /\ InitOps

NextDelta ==
    \/ Tick(1)
    \/ \E t \in Tables, k \in DeltaKeys : InsertRow(t, k, 0)
    \/ \E t \in Tables, k \in DeltaKeys : UpdateRow(t, k)
    \/ \E t \in Tables : StartRun(t)
    \/ \E t \in Tables, ok \in BOOLEAN : ExtractWithNativeBookmarks(t, ok)
    \/ \E t \in Tables, ok \in BOOLEAN : DeltaCommitEmpty(t, ok)
    \/ \E t \in Tables, ok \in BOOLEAN : DeltaTransformData(t, ok)
    \/ \E t \in Tables, outcome \in {"merge", "overwrite", "raise"} : UpsertToDeltaLake(t, outcome)
    \/ \E t \in Tables, ok \in BOOLEAN : CreateSymlinkManifest(t, ok)
    \/ \E t \in Tables, ok \in BOOLEAN : OptimizeDeltaTable(t, ok)
    \/ \E t \in Tables, ok \in BOOLEAN : DeltaFinallyCommit(t, ok)

SpecDelta == InitDelta /\ [][NextDelta]_vars

\* a bookmark job is deployed; its source table has up to NumDeltaKeys rows
InitBookmark == InitState({BookmarkScript}) /\ InitOps

NextBookmark ==
    \/ Tick(1)
    \/ \E t \in Tables, k \in DeltaKeys : InsertRow(t, k, 0)
    \/ \E t \in Tables, k \in DeltaKeys : UpdateRow(t, k)
    \/ \E t \in Tables : StartRun(t)
    \/ \E t \in Tables, ok \in BOOLEAN : ExtractFromRdsWithBookmark(t, ok)
    \/ \E t \in Tables, ok \in BOOLEAN : BookmarkTransformData(t, ok)
    \/ \E t \in Tables, ok \in BOOLEAN : LoadToS3WithPartitioning(t, ok)
    \/ \E t \in Tables, ok \in BOOLEAN : BookmarkJobCommit(t, ok)

SpecBookmark == InitBookmark /\ [][NextBookmark]_vars

\* timestamp-window jobs are deployed for two tables and run interleaved
InitTables ==
    /\ InitJobs({TimestampScript}, {{a, b} : a, b \in Tables} \ {{t} : t \in Tables})
    /\ InitOps

NextTables ==
    \/ Tick(1)
    \/ \E t \in Tables : InsertRow(t, 1, 0)
    \/ \E t \in Tables : StartRun(t)
    \/ \E t \in Tables, s3ok \in BOOLEAN : GetLastProcessedTimestamp(t, s3ok)
    \/ \E t \in Tables, ok \in BOOLEAN : ExtractFromRdsIncremental(t, ok)
    \/ \E t \in Tables, ok \in BOOLEAN : TransformData(t, ok)
    \/ \E t \in Tables, ok \in BOOLEAN : LoadToS3Incremental(t, ok)
    \/ \E t \in Tables, s3ok \in BOOLEAN : SaveLastProcessedTimestamp(t, s3ok)
    \/ \E t \in Tables, ok \in BOOLEAN : JobCommit(t, ok)

SpecTables == InitTables /\ [][NextTables]_vars

\* the customers job has run once, one lookback period ago (InitRetry); now
\* two runs of it are started
InitOverlap == InitRetry /\ jobTables = {"customers"}

NextOverlap ==
    \/ \E d \in {1, Lookback} : Tick(d)
    \/ \E t \in Tables, k \in Keys : nWrites < MaxRetryWrites /\ UpdateRow(t, k)
    \/ \E r \in OverlapRuns : OverlapStart(r)
    \/ \E r \in OverlapRuns, s3ok \in BOOLEAN : OverlapGetLastProcessedTimestamp(r, s3ok)
    \/ \E r \in OverlapRuns, ok \in BOOLEAN : OverlapExtractFromRdsIncremental(r, ok)
    \/ \E r \in OverlapRuns, ok \in BOOLEAN : OverlapTransformData(r, ok)
    \/ \E r \in OverlapRuns, ok \in BOOLEAN : OverlapLoadToS3Incremental(r, ok)
    \/ \E r \in OverlapRuns, s3ok \in BOOLEAN : OverlapSaveLastProcessedTimestamp(r, s3ok)
    \/ \E r \in OverlapRuns, ok \in BOOLEAN : OverlapJobCommit(r, ok)

SpecOverlap == InitOverlap /\ [][NextOverlap]_vars

InitPipeline == InitJobs({TimestampScript}, {{}}) /\ InitOps

NextPipeline ==
    \/ \E j \in Jobs, state \in {"RUNNING", "SUCCEEDED", "FAILED", "TIMEOUT", "ERROR",
                                  "STOPPING", "STOPPED"} : JobRunProgress(j, state)
    \/ CrawlerProgress
    \/ \E ok \in BOOLEAN : RunGlueJob(ok)
    \/ \E raises \in BOOLEAN : MonitorJob(raises)
    \/ \E ok \in BOOLEAN : RunCrawler(ok)
    \/ \E raises \in BOOLEAN : MonitorCrawler(raises)

\* each monitor sleeps 30 seconds and polls again for as long as it runs
SpecPipeline ==
    /\ InitPipeline /\ [][NextPipeline]_vars
    /\ WF_vars(\E raises \in BOOLEAN : MonitorJob(raises))
    /\ WF_vars(\E raises \in BOOLEAN : MonitorCrawler(raises))

NextAthena ==
    \/ AthenaProgress
    \/ \E ok \in BOOLEAN : StartQueryExecution(ok)
    \/ \E raises \in BOOLEAN : AthenaPoll(raises)
    \/ \E results \in {"rows", "empty", "raise"} : AthenaReport(results)

\* test_pipeline() is sequential: each call returns or raises, and each sleep ends
SpecAthena ==
    /\ InitPipeline /\ [][NextAthena]_vars
    /\ WF_vars(\E ok \in BOOLEAN : StartQueryExecution(ok))
    /\ WF_vars(\E raises \in BOOLEAN : AthenaPoll(raises))
    /\ WF_vars(\E results \in {"rows", "empty", "raise"} : AthenaReport(results))

\* ------------------------------------------- properties of the timestamp-window job
\* a record has a change-tracking timestamp column strictly greater than ts
\* (customers and other tables: created_at, updated_at; orders: order_date,
\* the start of that day, and updated_at)
StrictlyNewer(t, v, ts) ==
    IF t = "orders"
    THEN v.order_date * TicksPerDay > ts \/ v.updated_at > ts
    ELSE v.created_at > ts \/ v.updated_at > ts

\* the extract of the run of t returns in this step
ExtractReturns(t) == pc[t] = "read" /\ pc'[t] \in {"extracted", "noop"}

\* C1: across any sequence of runs of one table (success, failure or no-op)
\* the persisted watermark never decreases: during and after every run it is
\* >= its value before that run, which is its value after the previous one.
C1_WatermarkNeverDecreases ==
    \A t \in Tables : store[MetadataKey(t)] >= wmBefore[t]

C1_Witness ==
    \E t \in Tables : pc[t] = "done" /\ wmBefore[t] # NoWatermark /\ store[MetadataKey(t)] > wmBefore[t]

\* C2: if extract, transform or load raises, the run ends failed, the persisted
\* watermark equals its value before the run and save_last_processed_timestamp
\* was not called in that run.
C2_FailedRunKeepsWatermark ==
    \A t \in Tables :
        failedAt[t] \in {"extract", "transform", "load"} =>
            /\ pc[t] = "failed"
            /\ store[MetadataKey(t)] = wmBefore[t]
            /\ "save" \notin Range(trace[t])

C2_Witness ==
    \E t \in Tables :
        pc[t] = "failed" /\ failedAt[t] = "load" /\ wmBefore[t] # NoWatermark

\* C3: a failure to write the watermark after a successful extract, transform
\* and load is fatal: the run does not complete as successful.
C3_WatermarkWriteFailureFailsRun ==
    \A t \in Tables : saveFailed[t] => pc[t] # "done"

\* C4: at-least-once delivery.  Whenever the last run of t has completed
\* without error, every row version of the source has been loaded or is still
\* selected by the incremental predicate of the persisted watermark (so a
\* later run extracts it): no changed row is left behind the watermark, where
\* later runs skip it.
C4_NoChangedRowLeftBehind ==
    \A t \in jobTables :
        pc[t] \in {"idle", "done", "noop"} =>
            \A v \in TableRows(t) :
                \/ v \in target[t]
                \/ store[MetadataKey(t)] = NoWatermark
                \/ MatchesIncremental(t, v, store[MetadataKey(t)])

\* C5: with a stored watermark W the extract selects a record iff one of its
\* change-tracking timestamps is strictly greater than W.
C5_ExtractSelectsStrictlyNewer ==
    [][\A t \in Tables :
          ExtractReturns(t) /\ ~usedDefault[t] =>
              selected'[t] = {v \in TableRows(t) : StrictlyNewer(t, v, last_timestamp[t])}]_vars

\* C6: with no stored watermark the run uses the default (now minus 30 days)
\* and the extract selects exactly the records newer than that default.
C6_FirstRunSelectsLookbackWindow ==
    [][\A t \in Tables :
          ExtractReturns(t) /\ store[MetadataKey(t)] = NoWatermark =>
              /\ usedDefault[t]
              /\ selected'[t] = {v \in TableRows(t) : StrictlyNewer(t, v, last_timestamp[t])}]_vars

\* C7: a run whose extract returns zero records performs no transform, no load
\* and no watermark write; the persisted watermark equals the one before it.
C7_EmptyExtractIsNoOp ==
    \A t \in Tables :
        ("extract" \in Range(trace[t]) /\ failedAt[t] # "extract" /\ selected[t] = {}) =>
            /\ pc[t] = "noop"
            /\ trace[t] = <<"read", "extract">>
            /\ store[MetadataKey(t)] = wmBefore[t]

C7_Witness ==
    \E t \in Tables :
        pc[t] = "noop" /\ wmBefore[t] # NoWatermark /\ TableRows(t) # {}

\* the order of the steps of main() in the timestamp-window job
StepOrder == <<"read", "extract", "transform", "load", "save", "commit">>

\* C11: within one run of the timestamp job the steps occur strictly in the
\* order watermark read, extract, transform, load, watermark write; the write
\* is called only after the load of the same run has returned without error.
C11_StepsInOrder ==
    \A t \in Tables :
        script = TimestampScript =>
            /\ Len(trace[t]) <= Len(StepOrder)
            /\ trace[t] = SubSeq(StepOrder, 1, Len(trace[t]))
            /\ "save" \in Range(trace[t]) =>
                   failedAt[t] \notin {"extract", "transform", "load"}
                       /\ selected[t] \subseteq target[t]

C11_Witness ==
    \E t \in Tables :
        pc[t] = "done" /\ trace[t] = StepOrder /\ wmBefore[t] # NoWatermark

\* ts is the default timestamp of a read made between the start and now: a
\* whole second that lies 30 days before a time in StartClock..clock
IsDefaultTimestamp(ts) ==
    /\ ts = Strftime(ts)
    /\ DefaultTimestamp(StartClock) <= ts
    /\ ts <= DefaultTimestamp(clock)

\* C12: retry idempotence.  When a run has failed after its extract and the
\* source table has not been written to since, the next run reads the same
\* stored watermark and its extract selects exactly the set of records that
\* the failed run had selected.
C12_RetrySelectsSameRecords ==
    \A t \in Tables :
        ( /\ failedRun[t].failedAt # "none" /\ ~failedRun[t].usedDefault
          /\ "extract" \in Range(trace[t]) /\ failedAt[t] # "extract" /\ ~usedDefault[t]
          /\ writesAtExtract[t] = failedRun[t].writes ) =>
            /\ last_timestamp[t] = failedRun[t].last_timestamp
            /\ selected[t] = failedRun[t].selected

\* C13: a failure to read the stored watermark (the object is missing or the
\* store raises) never fails the run: the read returns the default, now minus
\* 30 days, and the run proceeds to the extract.
C13_ReadFailureFallsBackToDefault ==
    \A t \in Tables :
        script = TimestampScript =>
            /\ (pc[t] \notin {"idle", "start"} /\ wmBefore[t] = NoWatermark) => usedDefault[t]
            /\ failedAt[t] # "read"
            /\ usedDefault[t] =>
                   /\ IsDefaultTimestamp(last_timestamp[t])
                   /\ pc[t] = "read" \/ "extract" \in Range(trace[t])

C13_Witness ==
    \E t \in Tables :
        usedDefault[t] /\ wmBefore[t] # NoWatermark /\ pc[t] = "extracted"

\* C14: watermarks are isolated per table.  Whatever runs of other tables do,
\* the stored watermark of a table changes only by a save of its own run, the
\* read of its run returns its own stored watermark, and its stored watermark
\* is the last value its own runs saved.
C14_WatermarksIsolatedPerTable ==
    \A t \in Tables :
        /\ "save" \notin Range(trace[t]) => store[MetadataKey(t)] = wmBefore[t]
        /\ ("read" \in Range(trace[t]) /\ ~usedDefault[t]) => last_timestamp[t] = wmBefore[t]
        /\ store[MetadataKey(t)] = saved[t]

C14_Witness ==
    \E a, b \in Tables :
        /\ a # b /\ pc[a] = "done" /\ store[MetadataKey(a)] # NoWatermark
        /\ pc[b] = "loaded" /\ wmBefore[b] = NoWatermark
        /\ store[MetadataKey(b)] = NoWatermark

\* the current run of t has read the watermark after an earlier run's save of
\* a value had succeeded
ReadAfterSave(t) ==
    /\ script = TimestampScript
    /\ "read" \in Range(trace[t]) /\ "save" \notin Range(trace[t])
    /\ saved[t] # NoWatermark

\* C15 as stated: after save_last_processed_timestamp(bucket, table, w) has
\* succeeded, the next get_last_processed_timestamp(bucket, table) returns
\* exactly w.
C15_NextReadReturnsSavedValue ==
    \A t \in Tables : ReadAfterSave(t) => last_timestamp[t] = saved[t]

\* C15 as amended: after a save of w has succeeded the stored object holds
\* exactly w, whatever it held before, and the next read returns exactly w
\* unless its get_object raises, in which case it returns the default.
C15_NextReadReturnsSavedValueOrDefault ==
    \A t \in Tables :
        /\ (script = TimestampScript /\ saved[t] # NoWatermark) =>
               store[MetadataKey(t)] = saved[t]
        /\ ReadAfterSave(t) =>
               IF usedDefault[t]
               THEN IsDefaultTimestamp(last_timestamp[t])
               ELSE last_timestamp[t] = saved[t]

C15_Witness ==
    \E t \in Tables :
        /\ ReadAfterSave(t) /\ ~usedDefault[t] /\ last_timestamp[t] = saved[t]
        /\ pc[t] = "extracted"

\* ------------------------------------------- properties of run-pipeline
\* monitor_job or monitor_crawler has returned a value
HasReturned(value) == value \in {"True", "False"}

\* monitor_job(j) is running
Monitoring(j) ==
    mainPc = "polling_job" /\ monitored < Len(job_runs) /\ job_runs[monitored + 1] = j

\* C16: in run-pipeline the crawler is started only if every job of
\* jobs_to_run was started and finished SUCCEEDED; when a job failed to start
\* or did not succeed, the crawler is skipped.
C16_CrawlerOnlyAfterAllJobsSucceeded ==
    (mainPc \in {"start_crawler", "polling_crawler", "finished"} \/ crawlerStarted) =>
        \A j \in Jobs : jobRunState[j] # "none" /\ returned[j] = "True"

C18_MonitorCrawlerReturnsAfterCrawl ==
    (HasReturned(crawlerReturned) /\ ~pollRaised[crawler_name]) =>
        crawlerState = "READY" /\ crawls > 0 /\ crawlerReturned = "True"

\* C19: when a status poll raises inside monitor_job, on the first poll or on
\* a later one, monitoring stops and monitor_job returns False without raising.
C19_PollErrorReturnsFalse ==
    \A j \in Jobs : pollRaised[j] => returned[j] = "False"

\* ------------------------------------------- properties of the bookmark jobs
\* the extract of the current run of t returned, and returned zero records
ZeroRecordRun(t) ==
    "extract" \in Range(trace[t]) /\ failedAt[t] # "extract" /\ selected[t] = {}

\* C8: in the Delta-upsert jobs, when extract, transform or upsert raises, the
\* run propagates the error without advancing the job bookmark: job.commit()
\* is not called on the failed run.
C8_DeltaFailedRunDoesNotCommit ==
    \A t \in Tables :
        (script \in DeltaScripts /\ pc[t] = "failed"
            /\ failedAt[t] \in {"extract", "transform", "upsert"}) =>
                commits[t] = 0 /\ bookmark[t] = bmBefore[t]

\* C9 as stated: in the bookmark-based jobs job.commit() is not called on a
\* run whose extract returned zero records.
C9_ZeroRecordRunDoesNotCommit ==
    \A t \in Tables : ZeroRecordRun(t) => commits[t] = 0

\* C9 as amended: a run whose extract returned zero records does no transform,
\* load or upsert and leaves the bookmark as it was before the run, although it
\* does call job.commit() before it ends.
C9_ZeroRecordRunKeepsBookmark ==
    \A t \in Tables :
        ZeroRecordRun(t) =>
            /\ bookmark[t] = bmBefore[t]
            /\ Range(trace[t]) \subseteq {"extract", "commit"}
            /\ pc[t] = "done" => commits[t] = IF script = BookmarkScript THEN 1 ELSE 2

C9_Witness ==
    \E t \in Tables :
        /\ ZeroRecordRun(t) /\ pc[t] = "done" /\ commits[t] >= 1
        /\ TableRows(t) # {} /\ bookmark[t] # {}

\* C10 as stated: in etl_job_bookmark job.commit() is called only after
\* extract, transform and load have all completed, and never in a run in which
\* one of them raised.
C10_CommitOnlyAfterExtractTransformLoad ==
    \A t \in Tables :
        script = BookmarkScript =>
            /\ commits[t] > 0 => trace[t] = <<"extract", "transform", "load", "commit">>
            /\ failedAt[t] \in {"extract", "transform", "load"} =>
                   pc[t] = "failed" /\ commits[t] = 0

\* C10 as amended: job.commit() is called only after extract and, when it
\* returned records, transform and load have completed; it is never called in
\* a run in which one of them raised, and that run ends failed.
C10_CommitOnlyAfterCompletedSteps ==
    \A t \in Tables :
        script = BookmarkScript =>
            /\ commits[t] > 0 =>
                   \/ selected[t] # {} /\ trace[t] = <<"extract", "transform", "load", "commit">>
                   \/ selected[t] = {} /\ trace[t] = <<"extract", "commit">>
            /\ failedAt[t] \in {"extract", "transform", "load"} =>
                   pc[t] = "failed" /\ commits[t] = 0

C10_Witness ==
    \E t \in Tables :
        /\ script = BookmarkScript /\ pc[t] = "done" /\ commits[t] = 1
        /\ trace[t] = <<"extract", "transform", "load", "commit">>

\* of the row versions in S, the most recent one of each primary key
LatestPerKey(S) == {v \in S : \A w \in S : w.key = v.key => w.updated_at <= v.updated_at}

\* C20: in the Delta-upsert jobs, after any sequence of successful runs the
\* target Delta table holds exactly one row per primary key among all rows
\* ever extracted, carrying the most recently extracted version; upserting the
\* batch of a run a second time would leave the table as it is.
C20_DeltaTableHoldsLatestPerKey ==
    \A t \in Tables :
        /\ (script \in DeltaScripts /\ cleanRuns[t] /\ pc[t] = "done") =>
               target[t] = LatestPerKey(bookmark[t])
        /\ (script \in DeltaScripts /\ pc[t] = "upserted") =>
               Merge(target[t], selected[t]) = target[t]

\* ------------------------------------------------ properties of the customers load
\* C21: in etl_job_bookmark, after a run of the customers job has completed,
\* every customer row that an earlier run loaded and committed, and that no
\* later run has extracted again in a newer version, is in the target
C21_CustomersLoadKeepsEarlierRows ==
    (script = BookmarkScript /\ pc["customers"] = "done")
        => LatestPerKey(bookmark["customers"]) \subseteq target["customers"]

\* ------------------------------------- properties of the optional Delta-upsert steps
\* C22: in a Delta-upsert run in which create_symlink_manifest or
\* optimize_delta_table has failed, the failure is not raised out of main():
\* the run goes on to job.commit(), only a failure of that commit makes the
\* run fail, the finished run has called job.commit(), and from the return of
\* upsert_to_delta_lake to the end of the run the table is not changed
C22_OptionalStepFailureIsSwallowed ==
    /\ [](\A t \in Tables : (script \in DeltaScripts /\ warnings[t] # {}) =>
            /\ pc[t] \in {"manifested", "finally", "done", "failed"}
            /\ failedAt[t] \in {"none", "commit"}
            /\ pc[t] = "failed" => failedAt[t] = "commit"
            /\ pc[t] \in {"done", "failed"} => commits[t] >= 1
            /\ selected[t] \subseteq target[t])
    /\ [][\A t \in Tables :
            (script \in DeltaScripts /\ pc[t] \in {"upserted", "manifested", "finally"})
                => target'[t] = target[t]]_vars

\* a run has finished without error although both optional steps failed
C22_Witness ==
    \E t \in Tables :
        /\ script \in DeltaScripts
        /\ warnings[t] = {"manifest", "optimize"}
        /\ pc[t] = "done"
        /\ commits[t] = 1
        /\ target[t] # {}

\* ------------------------------------------------ properties of the Athena wait loop
MaxPolls == max_wait \div sleep_seconds

\* C23: the wait loop of test_pipeline calls get_query_execution at most 15
\* times for a query (30 seconds in steps of 2), a record count is printed only
\* when the last state the loop has observed is SUCCEEDED, and the section
\* ends whatever the query does
C23_AthenaWaitLoopIsBounded ==
    /\ [](/\ polls <= MaxPolls
          /\ wait_time <= max_wait
          /\ \A i \in DOMAIN reports :
                reports[i].line = "count" => reports[i].status = "SUCCEEDED")
    /\ <>(testPc \in {"ended", "error"})

\* the first query was polled 15 times and never seen in a final state, the
\* second one succeeded and its count was printed
C23_Witness ==
    /\ testPc = "ended"
    /\ Len(reports) = 2
    /\ reports[1].status \in {"QUEUED", "RUNNING"}
    /\ reports[1].line = "query status"
    /\ reports[2].line = "count"

\* ------------------------------------------ properties of the full-table extract
\* C24: when the extract of the timestamp-window job has returned, it has
\* read the whole table (unfiltered dbtable) iff no watermark was stored for
\* the table when the run started; with a stored watermark it has applied the
\* watermark predicate
C24_FullReadIffNoWatermarkStored ==
    \A t \in Tables :
        (script = TimestampScript /\ pc[t] \in {"extracted", "noop"}) =>
            (fullScan[t] <=> wmBefore[t] = NoWatermark)

\* ------------------------------------------------------ properties of job.commit()
\* C25: in every job script a run calls job.commit() at most once, whatever
\* path it takes
C25_CommitAtMostOncePerRun ==
    \A t \in Tables : commits[t] <= 1

\* ------------------------------------------------- properties of overlapping runs
\* run r has left main()
Finished(r) == overlap[r].pc \in {"noop", "done", "failed"}

\* the watermark is not below what it was when any of the runs started, and
\* once one of them has written it is the value written last, which is the
\* greatest value written
WatermarkNeverDecreased ==
    /\ \A r \in OverlapRuns : ~At(r, "idle") => store[OverlapKey] >= overlap[r].before
    /\ written.last # NoWatermark =>
          store[OverlapKey] = written.last /\ written.last = written.max

====
